---- MODULE Spec2Model ----
(***************************************************************************)
(* Easy Calendar: the calendar arithmetic (calendar-time.js, found in      *)
(* src/scripts/main.js lines 208-722) and the data layer with its world    *)
(* time synchronisation (calendar-data.js, found in src/unnamed/part_001). *)
(*                                                                         *)
(* Three specifications share the variables:                               *)
(*   SpecTime  applies the pure functions of calendar-time.js to inputs    *)
(*             drawn from bounded sets;                                    *)
(*   Spec      is the data layer: the stored settings, the world clock,    *)
(*             the guard flags and the async operations, each split at     *)
(*             its await points, the handlers run one at a time;           *)
(*   SpecAsync is the data layer with the handlers interleaved at their    *)
(*             await points.                                               *)
(***************************************************************************)
EXTENDS Integers, Sequences, FiniteSets, TLC

VARIABLES
    config,      \* game.settings calendarConfig: the active calendar shape
    calState,    \* game.settings calendarState: the stored date and sync fields
    worldTime,   \* game.time.worldTime, the external clock
    toGuard,     \* CalendarData._isUpdatingToWorldTime
    fromGuard,   \* CalendarData._isUpdatingFromWorldTime
    notes,       \* updateWorldTime notifications written and not yet delivered
    api,         \* the engine operation in flight (its locals and position)
    api2,        \* SpecAsync: a second advance called before the first has returned
    missed,      \* a write of lastSyncedWorldTime was rejected and none has succeeded since
    hook,        \* the syncFromWorldTime call in flight (its locals and position)
    isGM,        \* game.user.isGM of this client
    call,        \* SpecTime: the function applied last and its extra arguments
    ret          \* SpecTime: what it returned

vars == <<config, calState, worldTime, toGuard, fromGuard, notes, api, api2, missed, hook, isGM, call, ret>>

(***************************************************************************)
(* Bounds of the model.                                                    *)
(***************************************************************************)
\* years drawn around startingYear: startingYear - YearSpan .. startingYear + YearSpan
YearSpan == 1
\* the stored date stays within MaxLin seconds of the epoch anchor
MaxLin == 12
\* the external clock stays within MaxWorld of zero
MaxWorld == 1
\* largest |amount| passed to advance
MaxAmount == 2
\* largest |offset| passed to calculateWeekday
MaxOffset == 4
\* largest interval of the simple leap rule
MaxInterval == 4
\* SpecAsync: notifications of external changes waiting while an operation runs
MaxNotes == 1
\* SpecAsync: the stored date stays within this many seconds of the epoch anchor
MaxAsyncLin == 2

(***************************************************************************)
(* JavaScript arithmetic.                                                  *)
(***************************************************************************)
\* a % b of JavaScript for b > 0: the remainder has the sign of a
JsRem(a, b) == IF a >= 0 THEN a % b ELSE -((-a) % b)

Abs(a) == IF a < 0 THEN -a ELSE a

\* Math.floor(a / b) for a >= 0, b > 0
FloorDiv(a, b) == a \div b

(***************************************************************************)
(* Calendar shapes.                                                        *)
(***************************************************************************)
DEFAULT_TIME_CONFIG == [hoursPerDay |-> 24, minutesPerHour |-> 60, secondsPerMinute |-> 60]

DEFAULT_LEAP_YEAR_CONFIG ==
    [enabled |-> FALSE, rule |-> "gregorian", interval |-> 4, months |-> <<>>]

\* PRESETS.gregorian, the only preset and the default of the calendarConfig setting
Gregorian ==
    [id |-> "gregorian",
     weekdays |-> <<"sun", "mon", "tue", "wed", "thu", "fri", "sat">>,
     firstWeekday |-> 0,
     months |-> << [id |-> "jan", days |-> 31], [id |-> "feb", days |-> 28],
                   [id |-> "mar", days |-> 31], [id |-> "apr", days |-> 30],
                   [id |-> "may", days |-> 31], [id |-> "jun", days |-> 30],
                   [id |-> "jul", days |-> 31], [id |-> "aug", days |-> 31],
                   [id |-> "sep", days |-> 30], [id |-> "oct", days |-> 31],
                   [id |-> "nov", days |-> 30], [id |-> "dec", days |-> 31] >>,
     yearConfig |-> [startingYear |-> 2024],
     time |-> DEFAULT_TIME_CONFIG,
     leapYear |-> [enabled |-> TRUE, rule |-> "gregorian", interval |-> 4,
                   months |-> << [monthId |-> "feb", extraDays |-> 1] >>]]

\* a user-defined shape: two months, three weekdays, an eight-second day,
\* a leap day in month "a" every second year
TinyTime == [hoursPerDay |-> 2, minutesPerHour |-> 2, secondsPerMinute |-> 2]

Tiny(start) ==
    [id |-> "tiny",
     weekdays |-> <<"w0", "w1", "w2">>,
     firstWeekday |-> 0,
     months |-> << [id |-> "a", days |-> 1], [id |-> "b", days |-> 1] >>,
     yearConfig |-> [startingYear |-> start],
     time |-> TinyTime,
     leapYear |-> [enabled |-> TRUE, rule |-> "simple", interval |-> 2,
                   months |-> << [monthId |-> "a", extraDays |-> 1] >>]]

\* the same with the Gregorian rule (years 0 and 4 are leap, 100 is not)
TinyGreg(start) ==
    [Tiny(start) EXCEPT !.id = "tinygreg", !.leapYear.rule = "gregorian"]

\* one month, two weekdays, no leap years
Mono(start) ==
    [id |-> "mono",
     weekdays |-> <<"w0", "w1">>,
     firstWeekday |-> 1,
     months |-> << [id |-> "a", days |-> 2] >>,
     yearConfig |-> [startingYear |-> start],
     time |-> TinyTime,
     leapYear |-> DEFAULT_LEAP_YEAR_CONFIG]

\* the shapes the data layer is driven with: two seconds a minute, one minute an
\* hour, two hours a day, anchored where the Gregorian preset is; three months
\* of one day, and the same with the first month only
PocketTime == [hoursPerDay |-> 2, minutesPerHour |-> 1, secondsPerMinute |-> 2]

Pocket ==
    [Tiny(2024) EXCEPT !.id = "pocket", !.time = PocketTime,
                       !.months = << [id |-> "a", days |-> 1], [id |-> "b", days |-> 1],
                                     [id |-> "c", days |-> 1] >>]

Uno == [Pocket EXCEPT !.id = "uno", !.months = << [id |-> "a", days |-> 1] >>]

\* a shape whose list of months is empty
Empty == [Pocket EXCEPT !.id = "empty", !.months = <<>>]

(***************************************************************************)
(* calendar-time.js                                                        *)
(***************************************************************************)
\* the Gregorian rule without its century exception
isLeapYear_julian(year, cfg) ==
    IF ~cfg.leapYear.enabled THEN FALSE
    ELSE IF cfg.leapYear.rule = "gregorian" THEN JsRem(year, 4) = 0
    ELSE IF cfg.leapYear.rule = "simple" THEN
        LET interval == IF cfg.leapYear.interval = 0 THEN 4 ELSE cfg.leapYear.interval
        IN  JsRem(year, interval) = 0
    ELSE FALSE

isLeapYear(year, cfg) ==
    IF ~cfg.leapYear.enabled THEN FALSE
    ELSE IF cfg.leapYear.rule = "gregorian" THEN
        IF JsRem(year, 400) = 0 THEN TRUE
        ELSE IF JsRem(year, 100) = 0 THEN FALSE
        ELSE IF JsRem(year, 4) = 0 THEN TRUE
        ELSE FALSE
    ELSE IF cfg.leapYear.rule = "simple" THEN
        LET interval == IF cfg.leapYear.interval = 0 THEN 4 ELSE cfg.leapYear.interval
        IN  JsRem(year, interval) = 0
    ELSE FALSE

\* config.leapYear.months.find(m => m.monthId === id): the first entry, or none
RECURSIVE FindLeapMonth(_, _, _)
FindLeapMonth(entries, id, i) ==
    IF i > Len(entries) THEN 0
    ELSE IF entries[i].monthId = id THEN i
    ELSE FindLeapMonth(entries, id, i + 1)

getDaysInMonth(year, monthIndex, cfg) ==
    IF monthIndex < 0 \/ monthIndex >= Len(cfg.months) THEN 0
    ELSE LET month == cfg.months[monthIndex + 1]
             found == IF isLeapYear(year, cfg)
                      THEN FindLeapMonth(cfg.leapYear.months, month.id, 1)
                      ELSE 0
         IN  IF found = 0 THEN month.days
             ELSE month.days + cfg.leapYear.months[found].extraDays

\* for (let m = 0; m < upto; m++) total += getDaysInMonth(year, m, config)
RECURSIVE SumMonths(_, _, _)
SumMonths(year, upto, cfg) ==
    IF upto <= 0 THEN 0
    ELSE SumMonths(year, upto - 1, cfg) + getDaysInMonth(year, upto - 1, cfg)

getDaysInYear(year, cfg) == SumMonths(year, Len(cfg.months), cfg)

\* for (let y = from; y < to; y++) total += getDaysInYear(y, config)
RECURSIVE SumYears(_, _, _)
SumYears(from, to, cfg) ==
    IF from >= to THEN 0
    ELSE getDaysInYear(from, cfg) + SumYears(from + 1, to, cfg)

getSecondsPerDay(cfg) ==
    cfg.time.hoursPerDay * cfg.time.minutesPerHour * cfg.time.secondsPerMinute

toWorldTime_dayNotShifted(state, cfg) ==
    LET startingYear == cfg.yearConfig.startingYear
        yearDays == IF state.year >= startingYear
                    THEN SumYears(startingYear, state.year, cfg)
                    ELSE -SumYears(state.year, startingYear, cfg)
        totalDays == yearDays + SumMonths(state.year, state.month, cfg) + state.day
    IN  totalDays * getSecondsPerDay(cfg)
        + state.hour * cfg.time.minutesPerHour * cfg.time.secondsPerMinute
        + state.minute * cfg.time.secondsPerMinute
        + state.second

toWorldTime_baseMonths(state, cfg) ==
    LET startingYear == cfg.yearConfig.startingYear
        yearDays == IF state.year >= startingYear
                    THEN SumYears(startingYear, state.year, cfg)
                    ELSE -SumYears(state.year, startingYear, cfg)
        totalDays == yearDays + SumMonths(startingYear, state.month, cfg) + (state.day - 1)
    IN  totalDays * getSecondsPerDay(cfg)
        + state.hour * cfg.time.minutesPerHour * cfg.time.secondsPerMinute
        + state.minute * cfg.time.secondsPerMinute
        + state.second

toWorldTime(state, cfg) ==
    LET startingYear == cfg.yearConfig.startingYear
        yearDays == IF state.year >= startingYear
                    THEN SumYears(startingYear, state.year, cfg)
                    ELSE -SumYears(state.year, startingYear, cfg)
        totalDays == yearDays + SumMonths(state.year, state.month, cfg) + (state.day - 1)
    IN  totalDays * getSecondsPerDay(cfg)
        + state.hour * cfg.time.minutesPerHour * cfg.time.secondsPerMinute
        + state.minute * cfg.time.secondsPerMinute
        + state.second

\* while (totalDays > 0) { year--; if (totalDays >= daysInYear) totalDays -= daysInYear; else break; }
RECURSIVE BackYears(_, _, _)
BackYears(year, totalDays, cfg) ==
    IF totalDays > 0
    THEN LET y == year - 1
             daysInYear == getDaysInYear(y, cfg)
         IN  IF totalDays >= daysInYear
             THEN BackYears(y, totalDays - daysInYear, cfg)
             ELSE [year |-> y, totalDays |-> totalDays]
    ELSE [year |-> year, totalDays |-> totalDays]

\* while (totalDays > 0 && month >= 0) { if (totalDays >= daysInMonth) { totalDays -= daysInMonth; month--; } else break; }
RECURSIVE BackMonths(_, _, _, _)
BackMonths(year, month, totalDays, cfg) ==
    IF totalDays > 0 /\ month >= 0
    THEN LET daysInMonth == getDaysInMonth(year, month, cfg)
         IN  IF totalDays >= daysInMonth
             THEN BackMonths(year, month - 1, totalDays - daysInMonth, cfg)
             ELSE [month |-> month, totalDays |-> totalDays]
    ELSE [month |-> month, totalDays |-> totalDays]

\* while (totalDays >= getDaysInYear(year, config)) { totalDays -= ...; year++; }
RECURSIVE ForwardYears(_, _, _)
ForwardYears(year, totalDays, cfg) ==
    IF totalDays >= getDaysInYear(year, cfg)
    THEN ForwardYears(year + 1, totalDays - getDaysInYear(year, cfg), cfg)
    ELSE [year |-> year, totalDays |-> totalDays]

\* while (month < months.length && totalDays >= getDaysInMonth(year, month, config)) { ...; month++; }
RECURSIVE ForwardMonths(_, _, _, _)
ForwardMonths(year, month, totalDays, cfg) ==
    IF month < Len(cfg.months) /\ totalDays >= getDaysInMonth(year, month, cfg)
    THEN ForwardMonths(year, month + 1, totalDays - getDaysInMonth(year, month, cfg), cfg)
    ELSE [month |-> month, totalDays |-> totalDays]

\* the time of day of a negative linear time not counted back from the next midnight
fromWorldTime_noAdjust(t, cfg) ==
    LET startingYear == cfg.yearConfig.startingYear
        secondsPerDay == getSecondsPerDay(cfg)
        minutesPerHour == cfg.time.minutesPerHour
        secondsPerMinute == cfg.time.secondsPerMinute
        isNegative == t < 0
        remainingSeconds == Abs(t)
        daySeconds0 == remainingSeconds % secondsPerDay
        totalDays0 == FloorDiv(remainingSeconds, secondsPerDay)
        adjust == FALSE
        totalDays == IF adjust THEN totalDays0 + 1 ELSE totalDays0
        daySeconds == IF adjust THEN secondsPerDay - daySeconds0 ELSE daySeconds0
        hour == FloorDiv(daySeconds, minutesPerHour * secondsPerMinute)
        daySeconds1 == daySeconds % (minutesPerHour * secondsPerMinute)
        minute == FloorDiv(daySeconds1, secondsPerMinute)
        second == daySeconds1 % secondsPerMinute
        Back(by, bm, month) ==
            [year |-> by.year, month |-> month,
             day |-> getDaysInMonth(by.year, month, cfg) - bm.totalDays,
             hour |-> hour, minute |-> minute, second |-> second]
        BackIn(by, bm) == Back(by, bm, IF bm.month < 0 THEN 0 ELSE bm.month)
        BackFrom(by) == BackIn(by, BackMonths(by.year, Len(cfg.months) - 1, by.totalDays, cfg))
        Forward(fy, fm, month) ==
            [year |-> fy.year, month |-> month, day |-> fm.totalDays + 1,
             hour |-> hour, minute |-> minute, second |-> second]
        ForwardIn(fy, fm) ==
            Forward(fy, fm, IF fm.month >= Len(cfg.months) THEN Len(cfg.months) - 1 ELSE fm.month)
        ForwardFrom(fy) == ForwardIn(fy, ForwardMonths(fy.year, 0, fy.totalDays, cfg))
    IN  IF isNegative
        THEN BackFrom(BackYears(startingYear, totalDays, cfg))
        ELSE ForwardFrom(ForwardYears(startingYear, totalDays, cfg))

fromWorldTime(t, cfg) ==
    LET startingYear == cfg.yearConfig.startingYear
        secondsPerDay == getSecondsPerDay(cfg)
        minutesPerHour == cfg.time.minutesPerHour
        secondsPerMinute == cfg.time.secondsPerMinute
        isNegative == t < 0
        remainingSeconds == Abs(t)
        daySeconds0 == remainingSeconds % secondsPerDay
        totalDays0 == FloorDiv(remainingSeconds, secondsPerDay)
        adjust == isNegative /\ daySeconds0 > 0
        totalDays == IF adjust THEN totalDays0 + 1 ELSE totalDays0
        daySeconds == IF adjust THEN secondsPerDay - daySeconds0 ELSE daySeconds0
        hour == FloorDiv(daySeconds, minutesPerHour * secondsPerMinute)
        daySeconds1 == daySeconds % (minutesPerHour * secondsPerMinute)
        minute == FloorDiv(daySeconds1, secondsPerMinute)
        second == daySeconds1 % secondsPerMinute
        Back(by, bm, month) ==
            [year |-> by.year, month |-> month,
             day |-> getDaysInMonth(by.year, month, cfg) - bm.totalDays,
             hour |-> hour, minute |-> minute, second |-> second]
        BackIn(by, bm) == Back(by, bm, IF bm.month < 0 THEN 0 ELSE bm.month)
        BackFrom(by) == BackIn(by, BackMonths(by.year, Len(cfg.months) - 1, by.totalDays, cfg))
        Forward(fy, fm, month) ==
            [year |-> fy.year, month |-> month, day |-> fm.totalDays + 1,
             hour |-> hour, minute |-> minute, second |-> second]
        ForwardIn(fy, fm) ==
            Forward(fy, fm, IF fm.month >= Len(cfg.months) THEN Len(cfg.months) - 1 ELSE fm.month)
        ForwardFrom(fy) == ForwardIn(fy, ForwardMonths(fy.year, 0, fy.totalDays, cfg))
    IN  IF isNegative
        THEN BackFrom(BackYears(startingYear, totalDays, cfg))
        ELSE ForwardFrom(ForwardYears(startingYear, totalDays, cfg))

\* the weekday counted from the first column of the grid
calculateWeekday_rotated(year, month, day, cfg, offset) ==
    LET startingYear == cfg.yearConfig.startingYear
        totalDays == IF year >= startingYear
                     THEN SumYears(startingYear, year, cfg)
                          + SumMonths(year, month, cfg) + (day - 1)
                     ELSE -SumYears(year, startingYear, cfg)
                          - SumMonths(year, month, cfg) - (day - 1)
        weekdayCount == Len(cfg.weekdays)
    IN  JsRem(JsRem(totalDays + offset + cfg.firstWeekday, weekdayCount) + weekdayCount, weekdayCount)

calculateWeekday(year, month, day, cfg, offset) ==
    LET startingYear == cfg.yearConfig.startingYear
        totalDays == IF year >= startingYear
                     THEN SumYears(startingYear, year, cfg)
                          + SumMonths(year, month, cfg) + (day - 1)
                     ELSE -SumYears(year, startingYear, cfg)
                          - SumMonths(year, month, cfg) - (day - 1)
        weekdayCount == Len(cfg.weekdays)
    IN  JsRem(JsRem(totalDays + offset, weekdayCount) + weekdayCount, weekdayCount)

\* while (v >= modulus) { v -= modulus; carry++; }  while (v < 0) { v += modulus; carry--; }
RECURSIVE Carry(_, _, _)
Carry(v, up, modulus) ==
    IF v >= modulus THEN Carry(v - modulus, up + 1, modulus)
    ELSE IF v < 0 THEN Carry(v + modulus, up - 1, modulus)
    ELSE [low |-> v, high |-> up]

\* while (day > daysInMonth) { day -= daysInMonth; month++; if (month >= length) { month = 0; year++; } ... }
RECURSIVE DayOverflow(_, _, _, _)
DayOverflow(year, month, day, cfg) ==
    LET daysInMonth == getDaysInMonth(year, month, cfg)
    IN  IF day > daysInMonth
        THEN IF month + 1 >= Len(cfg.months)
             THEN DayOverflow(year + 1, 0, day - daysInMonth, cfg)
             ELSE DayOverflow(year, month + 1, day - daysInMonth, cfg)
        ELSE [year |-> year, month |-> month, day |-> day]

\* while (day < 1) { month--; if (month < 0) { month = length - 1; year--; } day += daysInMonth; }
RECURSIVE DayUnderflow(_, _, _, _)
DayUnderflow(year, month, day, cfg) ==
    IF day < 1
    THEN LET m == IF month - 1 < 0 THEN Len(cfg.months) - 1 ELSE month - 1
             y == IF month - 1 < 0 THEN year - 1 ELSE year
         IN  DayUnderflow(y, m, day + getDaysInMonth(y, m, cfg), cfg)
    ELSE [year |-> year, month |-> month, day |-> day]

normalizeDate_noDayUnderflow(state, cfg) ==
    LET Result(under, h, m, s) ==
            [year |-> under.year, month |-> under.month, day |-> under.day,
             hour |-> h.low, minute |-> m.low, second |-> s.low]
        Months(mo, h, m, s) == Result(DayOverflow(mo.high, mo.low, h.high, cfg), h, m, s)
        Hours(h, m, s) == Months(Carry(state.month, state.year, Len(cfg.months)), h, m, s)
        Minutes(m, s) == Hours(Carry(m.high, state.day, cfg.time.hoursPerDay), m, s)
        Seconds(s) == Minutes(Carry(s.high, state.hour, cfg.time.minutesPerHour), s)
    IN  Seconds(Carry(state.second, state.minute, cfg.time.secondsPerMinute))

\* the hours carried into days before the minutes are carried into hours
normalizeDate_hoursFirst(state, cfg) ==
    LET Result(under, h, m, s) ==
            [year |-> under.year, month |-> under.month, day |-> under.day,
             hour |-> m.high, minute |-> m.low, second |-> s.low]
        Days(over, h, m, s) ==
            Result(DayUnderflow(over.year, over.month, over.day, cfg), h, m, s)
        Months(mo, h, m, s) == Days(DayOverflow(mo.high, mo.low, h.high, cfg), h, m, s)
        Hours(h, m, s) == Months(Carry(state.month, state.year, Len(cfg.months)), h, m, s)
        Minutes(h, s) == Hours(h, Carry(s.high, h.low, cfg.time.minutesPerHour), s)
        Seconds(s) == Minutes(Carry(state.hour, state.day, cfg.time.hoursPerDay), s)
    IN  Seconds(Carry(state.second, state.minute, cfg.time.secondsPerMinute))

normalizeDate(state, cfg) ==
    LET Result(under, h, m, s) ==
            [year |-> under.year, month |-> under.month, day |-> under.day,
             hour |-> h.low, minute |-> m.low, second |-> s.low]
        Days(over, h, m, s) ==
            Result(DayUnderflow(over.year, over.month, over.day, cfg), h, m, s)
        Months(mo, h, m, s) == Days(DayOverflow(mo.high, mo.low, h.high, cfg), h, m, s)
        Hours(h, m, s) == Months(Carry(state.month, state.year, Len(cfg.months)), h, m, s)
        Minutes(m, s) == Hours(Carry(m.high, state.day, cfg.time.hoursPerDay), m, s)
        Seconds(s) == Minutes(Carry(s.high, state.hour, cfg.time.minutesPerHour), s)
    IN  Seconds(Carry(state.second, state.minute, cfg.time.secondsPerMinute))

\* daysBetween(state, refDate, config): whole days from refDate to state, signed
daysBetween(state, refDate, cfg) ==
    LET yearDays == IF state.year >= refDate.year
                    THEN SumYears(refDate.year, state.year, cfg)
                    ELSE -SumYears(state.year, refDate.year, cfg)
    IN  yearDays + SumMonths(state.year, state.month, cfg) + state.day
        - SumMonths(refDate.year, refDate.month, cfg) - refDate.day

\* the loop of getMoonPhase over moon.phases (here indexed from 1): the 0-based index
\* of the first phase whose span holds dayInCycle; phaseIndex keeps its initial 0
\* when the loop ends without a break
RECURSIVE FindPhase(_, _, _, _)
FindPhase(phases, i, accumulatedDays, dayInCycle) ==
    IF i > Len(phases) THEN 0
    ELSE IF dayInCycle >= accumulatedDays /\ dayInCycle < accumulatedDays + phases[i].length
    THEN i - 1
    ELSE FindPhase(phases, i + 1, accumulatedDays + phases[i].length, dayInCycle)

\* getMoonPhase(state, moon, config) for whole-day cycle and phase lengths; <<>> is null
getMoonPhase(state, moon, cfg) ==
    IF Len(moon.phases) = 0 THEN <<>>
    ELSE LET daysSinceRef == daysBetween(state, moon.referenceNewMoon, cfg)
             cycleLength == moon.cycleLength
             rem == JsRem(daysSinceRef, cycleLength)
             dayInCycle == IF rem < 0 THEN rem + cycleLength ELSE rem
             phaseIndex == FindPhase(moon.phases, 1, 0, dayInCycle)
             \* Math.round((d / (cycleLength / 2)) * 100)
             ramp == IF 2 * dayInCycle <= cycleLength THEN dayInCycle
                     ELSE cycleLength - dayInCycle
         IN  << [phaseName |-> moon.phases[phaseIndex + 1].name,
                 phaseIndex |-> phaseIndex,
                 dayInCycle |-> dayInCycle,
                 percentIlluminated |-> FloorDiv(400 * ramp + cycleLength, 2 * cycleLength)] >>

(***************************************************************************)
(* Stored state and operation records.                                     *)
(***************************************************************************)
\* the six civil fields of a state
DateOf(s) ==
    [year |-> s.year, month |-> s.month, day |-> s.day,
     hour |-> s.hour, minute |-> s.minute, second |-> s.second]

\* a stored calendarState: the date, the cached weekday and the sync bookkeeping
Stored(d, weekday, syncEnabled, lastSynced) ==
    [year |-> d.year, month |-> d.month, day |-> d.day,
     hour |-> d.hour, minute |-> d.minute, second |-> d.second,
     weekday |-> weekday, syncEnabled |-> syncEnabled, lastSyncedWorldTime |-> lastSynced]

getDefaultState ==
    Stored([year |-> Gregorian.yearConfig.startingYear, month |-> 0, day |-> 1,
            hour |-> 0, minute |-> 0, second |-> 0], 0, FALSE, 0)

\* no operation in flight
IdleOp == [kind |-> "none", pc |-> "idle"]

NoCall == [fn |-> "none", t |-> 0, offset |-> 0, other |-> DateOf(getDefaultState)]

(***************************************************************************)
(* calendar-data.js: the synchronous part of each operation.               *)
(***************************************************************************)
Units == {"second", "minute", "hour", "day", "week", "month", "year"}

FixedUnits == {"second", "minute", "hour", "day", "week"}

\* the operations that end in setState
SetKinds == {"setDate", "setTime", "setState", "loadPreset", "importConfig", "save"}

\* setSyncEnabled without the new baseline
setSyncEnabledValue_noBaseline(state, enabled, clock) ==
    [state EXCEPT !.syncEnabled = enabled]

\* setSyncEnabled(enabled), lines 151-157: the state it stores
setSyncEnabledValue(state, enabled, clock) ==
    [state EXCEPT !.syncEnabled = enabled,
                  !.lastSyncedWorldTime = IF enabled THEN clock ELSE @]

\* advance, lines 177-211: the unit change applied to the state read, and secondsDelta
advanceUnit(state, cfg, amount, unit) ==
    LET secondsPerDay == cfg.time.hoursPerDay * cfg.time.minutesPerHour * cfg.time.secondsPerMinute
        before == toWorldTime(state, cfg)
    IN  CASE unit = "second" ->
               [state |-> [state EXCEPT !.second = @ + amount], secondsDelta |-> amount]
          [] unit = "minute" ->
               [state |-> [state EXCEPT !.minute = @ + amount],
                secondsDelta |-> amount * cfg.time.secondsPerMinute]
          [] unit = "hour" ->
               [state |-> [state EXCEPT !.hour = @ + amount],
                secondsDelta |-> amount * cfg.time.minutesPerHour * cfg.time.secondsPerMinute]
          [] unit = "day" ->
               [state |-> [state EXCEPT !.day = @ + amount],
                secondsDelta |-> amount * secondsPerDay]
          [] unit = "week" ->
               LET daysInWeek == Len(cfg.weekdays)
               IN  [state |-> [state EXCEPT !.day = @ + amount * daysInWeek],
                    secondsDelta |-> amount * daysInWeek * secondsPerDay]
          [] unit = "month" ->
               LET st == [state EXCEPT !.month = @ + amount]
               IN  [state |-> st, secondsDelta |-> toWorldTime(st, cfg) - before]
          [] unit = "year" ->
               LET st == [state EXCEPT !.year = @ + amount]
               IN  [state |-> st, secondsDelta |-> toWorldTime(st, cfg) - before]

\* setState, lines 47-61: normalize, compute the weekday, keep the stored sync fields
setStateValue(state, cfg, currentState) ==
    LET Save(normalizedState) ==
            Stored(normalizedState,
                   calculateWeekday(normalizedState.year, normalizedState.month,
                                    normalizedState.day, cfg, 0),
                   currentState.syncEnabled, currentState.lastSyncedWorldTime)
    IN  Save(normalizeDate(state, cfg))

\* advance, lines 222-225: { ...newState, lastSyncedWorldTime: game.time.worldTime }
withLastSynced_stale(state, clock) == state

withLastSynced(state, clock) == [state EXCEPT !.lastSyncedWorldTime = clock]

\* syncFromWorldTime without the return on an unchanged world time (line 113)
syncFromIgnores_noSameTime(guard, currentState, v) ==
    \/ guard
    \/ ~currentState.syncEnabled

\* syncFromWorldTime, lines 107-113: the three early returns
syncFromIgnores(guard, currentState, v) ==
    \/ guard
    \/ ~currentState.syncEnabled
    \/ currentState.lastSyncedWorldTime = v

\* syncFromWorldTime, lines 121-133: the state it is about to store
syncFromValue(currentState, cfg, v) ==
    LET delta == v - currentState.lastSyncedWorldTime
        currentCalendarTime == toWorldTime(currentState, cfg)
        Save(newState) ==
            Stored(newState,
                   calculateWeekday(newState.year, newState.month, newState.day, cfg, 0),
                   currentState.syncEnabled, v)
    IN  Save(fromWorldTime(currentCalendarTime + delta, cfg))

(***************************************************************************)
(* Bounds on the inputs and on the values the model follows.               *)
(***************************************************************************)
Amounts == ((-MaxAmount) .. MaxAmount) \ {0}

\* the stored date stays within MaxLin seconds of the epoch anchor
InWindow(state, cfg) ==
    /\ state.year >= cfg.yearConfig.startingYear - YearSpan - 1
    /\ state.year <= cfg.yearConfig.startingYear + YearSpan + 1
    /\ Abs(toWorldTime(state, cfg)) <= MaxLin

ClockInRange(w) == Abs(w) <= MaxWorld

\* whether the operation in flight is still going to write to the external clock
WillWrite ==
    \/ api.pc = "time"
    \/ api.pc = "state" /\ api.kind = "advance" /\ api.pending.syncEnabled /\ isGM
                        /\ api.secondsDelta # 0
    \/ api.pc = "state" /\ api.kind \in SetKinds /\ api.updateWorldTime
                        /\ api.pending.syncEnabled /\ isGM

\* the platform calls the updateWorldTime hook as the clock changes: the clock is
\* not changed again before the notification of its last change has reached the
\* hook, nor while an operation is about to write to it
QueueRoom == notes = <<>> /\ ~WillWrite

\* what the operation in flight is still going to add to the external clock
OutboundInFlight ==
    IF WillWrite /\ (api.pc = "time" \/ api.kind = "advance") THEN api.secondsDelta ELSE 0

\* a notification is undisturbed while nothing but the operation that wrote it has
\* touched the state or the clock since, and that operation has not failed
Disturbed(q) == [i \in DOMAIN q |-> [q[i] EXCEPT !.undisturbed = FALSE]]

(***************************************************************************)
(* Spec: the data layer.  Every action is the completion of an awaited     *)
(* call together with the synchronous code up to the next await.           *)
(***************************************************************************)
Init ==
    /\ config = Gregorian
    /\ calState = getDefaultState
    /\ worldTime = 0
    /\ toGuard = FALSE
    /\ fromGuard = FALSE
    /\ notes = <<>>
    /\ api = IdleOp
    /\ api2 = IdleOp
    /\ missed = FALSE
    /\ hook = IdleOp
    /\ isGM \in BOOLEAN
    /\ call = NoCall
    /\ ret = 0

\* advance(amount, unit), lines 169-214: up to the settings write inside setState
AdvanceCall ==
    /\ api.pc = "idle"
    /\ \E amount \in (-MaxAmount) .. MaxAmount, unit \in Units :
         \E a \in {advanceUnit(calState, config, amount, unit)} :
           \E pending \in {setStateValue(a.state, config, calState)} :
             /\ InWindow(pending, config)
             /\ (pending.syncEnabled /\ isGM /\ a.secondsDelta # 0) =>
                    /\ ClockInRange(worldTime + a.secondsDelta)
                    /\ notes = <<>>
             /\ api' = [kind |-> "advance", pc |-> "state", amount |-> amount, unit |-> unit,
                        pending |-> pending, secondsDelta |-> a.secondsDelta,
                        before |-> DateOf(calState), during |-> 0]
    /\ notes' = Disturbed(notes)
    /\ UNCHANGED <<config, calState, worldTime, toGuard, fromGuard, hook, isGM, call, ret, api2, missed>>

\* advance starting its outbound step whether or not sync is enabled
AdvanceStateSaved_ignoresSync ==
    /\ api.kind = "advance" /\ api.pc = "state"
    /\ calState' = api.pending
    /\ IF isGM /\ api.secondsDelta # 0
       THEN /\ toGuard' = TRUE
            /\ api' = [api EXCEPT !.pc = "time"]
       ELSE /\ toGuard' = toGuard
            /\ api' = IdleOp
    /\ UNCHANGED <<config, worldTime, fromGuard, notes, hook, isGM, call, ret, api2, missed>>

\* advance, lines 214-220: the state is stored; the outbound write starts or advance returns
AdvanceStateSaved ==
    /\ api.kind = "advance" /\ api.pc = "state"
    /\ calState' = api.pending
    /\ IF api.pending.syncEnabled /\ isGM /\ api.secondsDelta # 0
       THEN /\ toGuard' = TRUE
            /\ api' = [api EXCEPT !.pc = "time"]
       ELSE /\ toGuard' = toGuard
            /\ api' = IdleOp
    /\ UNCHANGED <<config, worldTime, fromGuard, notes, hook, isGM, call, ret, api2, missed>>

\* advance, lines 220-225: game.time.advance(secondsDelta) has moved the clock; the
\* state with the new lastSyncedWorldTime is handed to the settings
AdvanceTimeAdvanced ==
    /\ api.kind = "advance" /\ api.pc = "time"
    /\ worldTime' = worldTime + api.secondsDelta
    /\ notes' = Append(notes, [value |-> worldTime', by |-> "advance",
                               undisturbed |-> (notes = <<>> /\ hook.pc = "idle"),
                                    disabled |-> FALSE])
    /\ api' = [api EXCEPT !.pc = "sync", !.pending = withLastSynced(api.pending, worldTime')]
    /\ UNCHANGED <<config, calState, toGuard, fromGuard, hook, isGM, call, ret, api2, missed>>

\* advance, lines 222-231: lastSyncedWorldTime is stored, the guard is cleared
AdvanceSyncSaved ==
    /\ api.kind = "advance" /\ api.pc = "sync"
    /\ calState' = api.pending
    /\ toGuard' = FALSE
    /\ api' = IF api.during = 0 THEN IdleOp ELSE [api EXCEPT !.pc = "done"]
    /\ missed' = FALSE
    /\ UNCHANGED <<config, worldTime, fromGuard, notes, hook, isGM, call, ret, api2>>

\* advance, lines 220 and 226-228: game.time.advance rejects; the guard is cleared
\* and the error reaches the caller of advance
AdvanceTimeFailed ==
    /\ api.kind = "advance" /\ api.pc = "time"
    /\ toGuard' = FALSE
    /\ api' = IdleOp
    /\ UNCHANGED <<config, calState, worldTime, fromGuard, notes, hook, isGM, call, ret, api2, missed>>

\* advance without its finally block: the guard stays set when the write rejects
AdvanceSyncFailed_guardKept ==
    /\ api.kind = "advance" /\ api.pc = "sync"
    /\ api' = IdleOp
    /\ notes' = Disturbed(notes)
    /\ missed' = TRUE
    /\ UNCHANGED <<config, calState, worldTime, toGuard, fromGuard, hook, isGM, call, ret, api2>>

\* advance, lines 222-228: the settings write after the clock write rejects
AdvanceSyncFailed ==
    /\ api.kind = "advance" /\ api.pc = "sync"
    /\ toGuard' = FALSE
    /\ api' = IdleOp
    /\ notes' = Disturbed(notes)
    /\ missed' = TRUE
    /\ UNCHANGED <<config, calState, worldTime, fromGuard, hook, isGM, call, ret, api2>>

\* setSyncEnabled(enabled), lines 150-159: up to the settings write
SetSyncEnabledCall ==
    /\ api.pc = "idle"
    /\ isGM
    /\ \E enabled \in BOOLEAN :
         api' = [kind |-> "setSyncEnabled", pc |-> "state",
                 pending |-> setSyncEnabledValue(calState, enabled, worldTime)]
    /\ notes' = Disturbed(notes)
    /\ UNCHANGED <<config, calState, worldTime, toGuard, fromGuard, hook, isGM, call, ret, api2, missed>>

\* setSyncEnabled, lines 159-160
SetSyncEnabledSaved ==
    /\ api.kind = "setSyncEnabled" /\ api.pc = "state"
    /\ calState' = api.pending
    /\ api' = IdleOp
    /\ missed' = FALSE
    /\ UNCHANGED <<config, worldTime, toGuard, fromGuard, notes, hook, isGM, call, ret, api2>>

\* another subsystem moves the external clock by d
ExternalChange ==
    /\ QueueRoom
    /\ \E d \in Amounts :
         /\ ClockInRange(worldTime + d)
         /\ ClockInRange(worldTime + d + OutboundInFlight)
         /\ worldTime' = worldTime + d
         /\ notes' = Append(Disturbed(notes),
                            [value |-> worldTime', by |-> "external", undisturbed |-> FALSE,
                             disabled |-> ~calState.syncEnabled])
    /\ UNCHANGED <<config, calState, toGuard, fromGuard, api, hook, isGM, call, ret, api2, missed>>

\* Hooks.on('updateWorldTime'): syncFromWorldTime(v) returns early, lines 105-113
DeliverIgnored ==
    /\ notes # <<>>
    /\ hook.pc = "idle"
    /\ api.pc # "hang"
    /\ syncFromIgnores(toGuard, calState, Head(notes).value)
    /\ notes' = Tail(notes)
    /\ UNCHANGED <<config, calState, worldTime, toGuard, fromGuard, api, hook, isGM, call, ret, api2, missed>>

\* syncFromWorldTime(v), lines 105-137: up to the settings write
DeliverApplied ==
    /\ notes # <<>>
    /\ hook.pc = "idle"
    /\ ~syncFromIgnores(toGuard, calState, Head(notes).value)
    /\ calState.year >= config.yearConfig.startingYear - YearSpan - 1
    /\ calState.year <= config.yearConfig.startingYear + YearSpan + 1
    /\ \E v \in {Head(notes).value} :
         \E pending \in {syncFromValue(calState, config, v)} :
           /\ Abs(toWorldTime(calState, config) + v - calState.lastSyncedWorldTime) <= MaxLin + MaxWorld
           /\ hook' = [kind |-> "syncFrom", pc |-> "state", v |-> v, pending |-> pending]
    /\ fromGuard' = TRUE
    /\ notes' = Tail(notes)
    /\ UNCHANGED <<config, calState, worldTime, toGuard, api, isGM, call, ret, api2, missed>>

\* syncFromWorldTime, lines 137-143: the state is stored, the inbound guard cleared
SyncFromSaved ==
    /\ hook.kind = "syncFrom" /\ hook.pc = "state"
    /\ calState' = hook.pending
    /\ fromGuard' = FALSE
    /\ hook' = IdleOp
    /\ missed' = FALSE
    /\ UNCHANGED <<config, worldTime, toGuard, notes, api, isGM, call, ret, api2>>

\* syncFromWorldTime, lines 136-140: the settings write rejects; the inbound guard
\* is cleared, nothing is stored and the rejection is left unhandled by the hook
SyncFromFailed ==
    /\ hook.kind = "syncFrom" /\ hook.pc = "state"
    /\ fromGuard' = FALSE
    /\ hook' = IdleOp
    /\ missed' = TRUE
    /\ UNCHANGED <<config, calState, worldTime, toGuard, notes, api, isGM, call, ret, api2>>

\* the inputs of setDate, setTime and the set-date dialog
SetDateInputs(cfg) ==
    LET start == cfg.yearConfig.startingYear
    IN  {[year |-> start - YearSpan], [month |-> Len(cfg.months)], [day |-> 0],
         [year |-> start, month |-> Len(cfg.months) - 1, day |-> 1]}

SetTimeInputs == {[hour |-> -1], [second |-> 2], [hour |-> 1, minute |-> 0, second |-> 1]}

DialogInputs(cfg) ==
    LET start == cfg.yearConfig.startingYear
    IN  {[year |-> start, month |-> 0, day |-> 3, hour |-> 0, minute |-> 0, second |-> 0],
         [year |-> start - 1, month |-> Len(cfg.months) - 1, day |-> 1,
          hour |-> 1, minute |-> 0, second |-> 0]}

\* setState(state, {updateWorldTime}), lines 46-61: up to the settings write
BeginSetState(kind, state, cfg, updateWorldTime) ==
    \E pending \in {setStateValue(state, cfg, calState)} :
        /\ InWindow(pending, cfg)
        /\ (updateWorldTime /\ pending.syncEnabled /\ isGM) =>
               /\ ClockInRange(toWorldTime(pending, cfg))
               /\ notes = <<>>
        /\ api' = [kind |-> kind, pc |-> "state", pending |-> pending,
                   updateWorldTime |-> updateWorldTime]

\* setDate(date, {updateWorldTime}), lines 241-249
SetDateCall ==
    /\ api.pc = "idle"
    /\ \E date \in SetDateInputs(config), updateWorldTime \in BOOLEAN :
         BeginSetState("setDate",
                       [calState EXCEPT
                          !.year = IF "year" \in DOMAIN date THEN date.year ELSE @,
                          !.month = IF "month" \in DOMAIN date THEN date.month ELSE @,
                          !.day = IF "day" \in DOMAIN date THEN date.day ELSE @],
                       config, updateWorldTime)
    /\ notes' = Disturbed(notes)
    /\ UNCHANGED <<config, calState, worldTime, toGuard, fromGuard, hook, isGM, call, ret, api2, missed>>

\* setTime(time, {updateWorldTime}), lines 258-266
SetTimeCall ==
    /\ api.pc = "idle"
    /\ \E time \in SetTimeInputs :
         BeginSetState("setTime",
                       [calState EXCEPT
                          !.hour = IF "hour" \in DOMAIN time THEN time.hour ELSE @,
                          !.minute = IF "minute" \in DOMAIN time THEN time.minute ELSE @,
                          !.second = IF "second" \in DOMAIN time THEN time.second ELSE @],
                       config, FALSE)
    /\ notes' = Disturbed(notes)
    /\ UNCHANGED <<config, calState, worldTime, toGuard, fromGuard, hook, isGM, call, ret, api2, missed>>

\* the set-date dialog of the panel: setState(result, {updateWorldTime: false})
SetStateCall ==
    /\ api.pc = "idle"
    /\ \E result \in DialogInputs(config) :
         BeginSetState("setState", result, config, FALSE)
    /\ notes' = Disturbed(notes)
    /\ UNCHANGED <<config, calState, worldTime, toGuard, fromGuard, hook, isGM, call, ret, api2, missed>>

\* setState, lines 61-74: the state is stored; syncToWorldTime (lines 81-88) starts
\* when asked for, or setState returns
SetStateSaved ==
    /\ api.kind \in SetKinds /\ api.pc = "state"
    /\ calState' = api.pending
    /\ IF api.updateWorldTime /\ api.pending.syncEnabled /\ isGM
       THEN /\ toGuard' = TRUE
            /\ \E target \in {toWorldTime(api.pending, config)} :
                 api' = [kind |-> api.kind, pc |-> "time", pending |-> api.pending,
                         updateWorldTime |-> TRUE, target |-> target,
                         secondsDelta |-> target - worldTime]
       ELSE /\ toGuard' = toGuard
            /\ api' = IdleOp
    /\ UNCHANGED <<config, worldTime, fromGuard, notes, hook, isGM, call, ret, api2, missed>>

\* setState called by importConfig (lines 358-375), line 64: the settings write
\* rejects; nothing is stored and the error is on its way to the caller
SetStateFailed ==
    /\ api.kind = "importConfig" /\ api.pc = "state"
    /\ InWindow(calState, config)
    /\ api' = [kind |-> api.kind, pc |-> "failed", prev |-> api.prev]
    /\ UNCHANGED <<config, calState, worldTime, toGuard, fromGuard, notes, hook, isGM, call, ret, api2, missed>>

\* the error of a failed operation has reached its caller
Thrown ==
    /\ api.pc = "failed"
    /\ api' = IdleOp
    /\ UNCHANGED <<config, calState, worldTime, toGuard, fromGuard, notes, hook, isGM, call, ret, api2, missed>>

\* syncToWorldTime, lines 88-94: game.time.advance has moved the clock
SyncToTimeAdvanced ==
    /\ api.kind \in SetKinds /\ api.pc = "time"
    /\ worldTime' = worldTime + api.secondsDelta
    /\ notes' = IF api.secondsDelta = 0 THEN notes
                ELSE Append(notes, [value |-> worldTime', by |-> "syncTo",
                                    undisturbed |-> (notes = <<>> /\ hook.pc = "idle"),
                                    disabled |-> FALSE])
    /\ api' = [api EXCEPT !.pc = "sync",
                          !.pending = [api.pending EXCEPT !.lastSyncedWorldTime = api.target]]
    /\ UNCHANGED <<config, calState, toGuard, fromGuard, hook, isGM, call, ret, api2, missed>>

\* syncToWorldTime, lines 91-98
SyncToSaved ==
    /\ api.kind \in SetKinds /\ api.pc = "sync"
    /\ calState' = api.pending
    /\ toGuard' = FALSE
    /\ api' = IdleOp
    /\ missed' = FALSE
    /\ UNCHANGED <<config, worldTime, fromGuard, notes, hook, isGM, call, ret, api2>>

\* syncToWorldTime, lines 88-98: game.time.advance rejects; the guard is cleared
\* and the error reaches the caller of setState
SyncToTimeFailed ==
    /\ api.kind \in SetKinds /\ api.pc = "time"
    /\ toGuard' = FALSE
    /\ api' = IdleOp
    /\ UNCHANGED <<config, calState, worldTime, fromGuard, notes, hook, isGM, call, ret, api2, missed>>

\* syncToWorldTime, lines 92-98: the settings write after the clock write rejects
SyncToSyncFailed ==
    /\ api.kind \in SetKinds /\ api.pc = "sync"
    /\ toGuard' = FALSE
    /\ api' = IdleOp
    /\ notes' = Disturbed(notes)
    /\ missed' = TRUE
    /\ UNCHANGED <<config, calState, worldTime, fromGuard, hook, isGM, call, ret, api2>>

\* getPreset(presetId): the preset library holds the Gregorian shape only
getPreset(presetId) == IF presetId = "gregorian" THEN <<Gregorian>> ELSE <<>>

\* the date setState is given after a shape is installed: the epoch anchor
AnchorOf(cfg) ==
    [year |-> cfg.yearConfig.startingYear, month |-> 0, day |-> 1,
     hour |-> 0, minute |-> 0, second |-> 0]

\* setConfig is awaited first; the state to set afterwards is kept, <<>> for none
BeginSetConfig(kind, cfg, next) ==
    api' = [kind |-> kind, pc |-> "config", cfg |-> cfg, next |-> next,
            prev |-> [config |-> config, state |-> calState]]

\* loadPreset(presetId), lines 273-279
LoadPresetCall ==
    /\ api.pc = "idle"
    /\ \E presetId \in {"gregorian", "unknown"} :
         LET preset == getPreset(presetId)
         IN  IF preset = <<>>
             THEN api' = IdleOp
             ELSE BeginSetConfig("loadPreset", preset[1], <<AnchorOf(preset[1])>>)
    /\ notes' = Disturbed(notes)
    /\ UNCHANGED <<config, calState, worldTime, toGuard, fromGuard, hook, isGM, call, ret, api2, missed>>

\* the documents importConfig is given: a shape with a state, a shape without the
\* optional firstWeekday, a document without a shape, a shape with months: [],
\* a shape without its months
ImportDocs ==
    { [config |-> Pocket,
       state |-> [year |-> 2023, month |-> 1, day |-> 1, hour |-> 1, minute |-> 0, second |-> 3]],
      [config |-> [id |-> Pocket.id, weekdays |-> Pocket.weekdays, months |-> Pocket.months,
                   yearConfig |-> Pocket.yearConfig, time |-> Pocket.time,
                   leapYear |-> Pocket.leapYear]],
      [state |-> AnchorOf(Pocket)],
      [config |-> Empty],
      [config |-> [id |-> "nomonths", weekdays |-> Pocket.weekdays,
                   yearConfig |-> Pocket.yearConfig, time |-> Pocket.time]] }

\* importConfig, lines 331-341: the required fields
importRejects(data) ==
    \/ "config" \notin DOMAIN data
    \/ \E field \in {"weekdays", "months", "yearConfig", "time"} : field \notin DOMAIN data.config

\* importConfig, lines 349-353: defaults of the optional fields
importDefaults(c) ==
    [id |-> c.id, weekdays |-> c.weekdays, months |-> c.months,
     yearConfig |-> c.yearConfig, time |-> c.time,
     firstWeekday |-> IF "firstWeekday" \in DOMAIN c THEN c.firstWeekday ELSE 0,
     leapYear |-> IF "leapYear" \in DOMAIN c THEN c.leapYear ELSE DEFAULT_LEAP_YEAR_CONFIG]

\* importConfig(data, importState), lines 329-355
ImportConfigCall ==
    /\ api.pc = "idle"
    /\ \E data \in ImportDocs, importState \in BOOLEAN :
         IF importRejects(data)
         THEN api' = [kind |-> "importConfig", pc |-> "failed",
                      prev |-> [config |-> config, state |-> calState]]
         ELSE LET cfg == importDefaults(data.config)
              IN  BeginSetConfig("importConfig", cfg,
                                 IF importState /\ "state" \in DOMAIN data
                                 THEN <<data.state>> ELSE <<AnchorOf(cfg)>>)
    /\ notes' = Disturbed(notes)
    /\ UNCHANGED <<config, calState, worldTime, toGuard, fromGuard, hook, isGM, call, ret, api2, missed>>

\* the shapes the configuration editor's form is saved with: one of them has fewer
\* months than the other, one has none
FormShapes == {Pocket, Uno, Empty}

\* the state the editor holds from an imported file (this._importState), <<>> for none
FormImportStates ==
    {<<>>, <<[year |-> 2024, month |-> 0, day |-> 1, hour |-> 1, minute |-> 0, second |-> 0]>>}

\* _onSave of the configuration editor, lines 557-576
SaveCall ==
    /\ api.pc = "idle"
    /\ \E cfg \in FormShapes, importState \in FormImportStates :
         IF Len(cfg.months) = 0 \/ Len(cfg.weekdays) = 0
         THEN api' = IdleOp
         ELSE /\ InWindow(calState, cfg)
              /\ BeginSetConfig("save", cfg, importState)
    /\ notes' = Disturbed(notes)
    /\ UNCHANGED <<config, calState, worldTime, toGuard, fromGuard, hook, isGM, call, ret, api2, missed>>

\* setConfig, lines 25-29, has stored the shape; the caller goes on to setState
\* (loadPreset 282, importConfig 358-375, _onSave 579-585) or is done
ConfigSaved ==
    /\ api.pc = "config"
    /\ config' = api.cfg
    /\ IF api.next = <<>>
       THEN api' = IdleOp
       ELSE IF Len(api.cfg.months) = 0
       THEN \* normalizeDate, main.js 488-491: month >= 0 never becomes false
            api' = [kind |-> api.kind, pc |-> "hang"]
       ELSE \E pending \in {setStateValue(api.next[1], api.cfg, calState)} :
                api' = [kind |-> api.kind, pc |-> "state", pending |-> pending,
                        updateWorldTime |-> FALSE, prev |-> api.prev]
    /\ UNCHANGED <<calState, worldTime, toGuard, fromGuard, notes, hook, isGM, call, ret, api2, missed>>

\* In Spec the two handlers that write the state run one at a time: an operation
\* is called while no inbound application is waiting for its write, an inbound
\* notification is applied while no operation is in flight, and the others move
\* the clock between operations.  A notification may reach the handler at any
\* time, in the middle of an operation too.
NoInbound == hook.pc = "idle"

NoOperation == api.pc = "idle"

Next ==
    \/ NoInbound /\ AdvanceCall
    \/ AdvanceStateSaved
    \/ AdvanceTimeAdvanced
    \/ AdvanceSyncSaved
    \/ AdvanceTimeFailed
    \/ AdvanceSyncFailed
    \/ NoInbound /\ SetSyncEnabledCall
    \/ SetSyncEnabledSaved
    \/ NoInbound /\ SetDateCall
    \/ NoInbound /\ SetTimeCall
    \/ NoInbound /\ SetStateCall
    \/ SetStateSaved
    \/ SetStateFailed
    \/ Thrown
    \/ NoInbound /\ LoadPresetCall
    \/ NoInbound /\ ImportConfigCall
    \/ NoInbound /\ SaveCall
    \/ ConfigSaved
    \/ SyncToTimeAdvanced
    \/ SyncToSaved
    \/ SyncToTimeFailed
    \/ SyncToSyncFailed
    \/ NoOperation /\ ExternalChange
    \/ DeliverIgnored
    \/ NoOperation /\ DeliverApplied
    \/ SyncFromSaved
    \/ SyncFromFailed

Spec == Init /\ [][Next]_vars

(***************************************************************************)
(* SpecAsync: the same handlers without the one-at-a-time discipline.  An   *)
(* operation may be called while an inbound application waits for its      *)
(* settings write, a notification may be applied while an operation is in  *)
(* flight, the clock may be moved by others during an advance, and a       *)
(* second advance may be called before the first has returned.  The shape  *)
(* stays the one installed at construction.                                *)
(***************************************************************************)
\* another subsystem moves the external clock by d while an advance is in flight;
\* the advance record keeps the sum of these changes
ExternalChangeInFlight ==
    /\ api.kind = "advance" /\ api.pc \in {"state", "time", "sync"}
    /\ api2.pc = "idle"
    /\ Len(notes) < MaxNotes
    /\ \E d \in Amounts :
         /\ ClockInRange(worldTime + d)
         /\ ClockInRange(worldTime + d + OutboundInFlight)
         /\ worldTime' = worldTime + d
         /\ notes' = Append(Disturbed(notes),
                            [value |-> worldTime', by |-> "external", undisturbed |-> FALSE,
                             disabled |-> ~calState.syncEnabled])
         /\ api' = [api EXCEPT !.during = @ + d]
    /\ UNCHANGED <<config, calState, toGuard, fromGuard, api2, missed, hook, isGM, call, ret>>

\* the caller of an advance that met an external change looks at the outcome once
\* every notification has been handled
AdvanceSettled ==
    /\ api.pc = "done"
    /\ notes = <<>> /\ hook.pc = "idle"
    /\ api' = IdleOp
    /\ UNCHANGED <<config, calState, worldTime, toGuard, fromGuard, notes, api2, missed, hook, isGM, call, ret>>

\* advance(amount, unit), lines 169-214, called while the first advance is in
\* flight and nothing but that advance has touched the state or the clock
SecondAdvanceCall ==
    /\ api.kind = "advance" /\ api.pc \in {"state", "time", "sync"}
    /\ api.during = 0
    /\ api2.pc = "idle"
    /\ hook.pc = "idle"
    /\ \A i \in DOMAIN notes : notes[i].by = "advance"
    /\ \/ DateOf(calState) = api.before
       \/ api.pc \in {"time", "sync"} /\ DateOf(calState) = DateOf(api.pending)
    /\ \E amount \in Amounts, unit \in Units :
         \E a \in {advanceUnit(calState, config, amount, unit)} :
           \E pending \in {setStateValue(a.state, config, calState)} :
             /\ Abs(toWorldTime(pending, config)) <= MaxAsyncLin
             /\ ClockInRange(worldTime + OutboundInFlight + a.secondsDelta)
             /\ api2' = [kind |-> "advance", pc |-> "state", amount |-> amount, unit |-> unit,
                         pending |-> pending, secondsDelta |-> a.secondsDelta,
                         first |-> [amount |-> api.amount, unit |-> api.unit,
                                    before |-> api.before,
                                    clock |-> IF api.pc = "sync"
                                              THEN worldTime - api.secondsDelta
                                              ELSE worldTime]]
    /\ UNCHANGED <<config, calState, worldTime, toGuard, fromGuard, notes, api, missed, hook, isGM, call, ret>>

\* the second advance, lines 214-220
SecondAdvanceStateSaved ==
    /\ api2.pc = "state"
    /\ calState' = api2.pending
    /\ IF api2.pending.syncEnabled /\ isGM /\ api2.secondsDelta # 0
       THEN /\ toGuard' = TRUE
            /\ api2' = [api2 EXCEPT !.pc = "time"]
       ELSE /\ toGuard' = toGuard
            /\ api2' = [api2 EXCEPT !.pc = "done"]
    /\ UNCHANGED <<config, worldTime, fromGuard, notes, api, missed, hook, isGM, call, ret>>

\* the second advance, lines 220-225
SecondAdvanceTimeAdvanced ==
    /\ api2.pc = "time"
    /\ worldTime' = worldTime + api2.secondsDelta
    /\ notes' = Append(notes, [value |-> worldTime', by |-> "advance", undisturbed |-> FALSE,
                               disabled |-> FALSE])
    /\ api2' = [api2 EXCEPT !.pc = "sync", !.pending = withLastSynced(api2.pending, worldTime')]
    /\ UNCHANGED <<config, calState, toGuard, fromGuard, api, missed, hook, isGM, call, ret>>

\* the second advance, lines 222-231
SecondAdvanceSyncSaved ==
    /\ api2.pc = "sync"
    /\ calState' = api2.pending
    /\ toGuard' = FALSE
    /\ api2' = [api2 EXCEPT !.pc = "done"]
    /\ missed' = FALSE
    /\ UNCHANGED <<config, worldTime, fromGuard, notes, api, hook, isGM, call, ret>>

\* both advance calls have returned and every notification has been handled
BothReturned ==
    /\ api2.pc = "done"
    /\ api.pc = "idle"
    /\ notes = <<>> /\ hook.pc = "idle"
    /\ api2' = IdleOp
    /\ UNCHANGED <<config, calState, worldTime, toGuard, fromGuard, notes, api, missed, hook, isGM, call, ret>>

NoSecond == api2.pc = "idle"

\* the narrower window of SpecAsync
Near(state) == Abs(toWorldTime(state, config)) <= MaxAsyncLin

NextAsync ==
    \/ NoSecond /\ AdvanceCall /\ Near(api'.pending)
    \/ AdvanceStateSaved
    \/ AdvanceTimeAdvanced
    \/ AdvanceSyncSaved
    \/ AdvanceSettled
    \/ SecondAdvanceCall
    \/ SecondAdvanceStateSaved
    \/ SecondAdvanceTimeAdvanced
    \/ SecondAdvanceSyncSaved
    \/ BothReturned
    \/ NoSecond /\ SetSyncEnabledCall
    \/ SetSyncEnabledSaved
    \/ NoOperation /\ ExternalChange
    \/ ExternalChangeInFlight
    \/ DeliverIgnored
    \/ DeliverApplied /\ Near(hook'.pending)
    \/ SyncFromSaved

SpecAsync == Init /\ [][NextAsync]_vars

(***************************************************************************)
(* SpecTime: the functions of calendar-time.js applied to bounded inputs.  *)
(***************************************************************************)
TimeShapes == {Tiny(1), Tiny(-2), TinyGreg(0), Mono(2), Gregorian}

\* small shapes are enumerated in full, large ones at their corners
Corners(n) == IF n <= 3 THEN 0 .. (n - 1) ELSE {0, 1, n - 2, n - 1}

Ends(n) == {0, n - 1}

YearsOf(cfg) ==
    (cfg.yearConfig.startingYear - YearSpan) .. (cfg.yearConfig.startingYear + YearSpan)

\* the normalized dates of a shape: valid month index, 1 <= day <= daysInMonth,
\* time fields inside their moduli
ValidDates(cfg) ==
    UNION { UNION { { [year |-> y, month |-> m, day |-> d0 + 1,
                       hour |-> h, minute |-> mi, second |-> s] :
                         d0 \in Corners(getDaysInMonth(y, m, cfg)),
                         h \in Ends(cfg.time.hoursPerDay),
                         mi \in Ends(cfg.time.minutesPerHour),
                         s \in Ends(cfg.time.secondsPerMinute) } :
                    m \in IF Len(cfg.months) <= 3 THEN 0 .. (Len(cfg.months) - 1)
                          ELSE {0, 1, 2, Len(cfg.months) - 1} } :
            y \in YearsOf(cfg) }

\* linear times given to fromWorldTime
TimeInputs(cfg) ==
    IF getSecondsPerDay(cfg) <= 8
    THEN (-2 * MaxLin) .. (2 * MaxLin)
    ELSE {-366 * 86400, -365 * 86400, -86401, -86400, -86399, -3600, -1,
          0, 1, 3600, 86399, 86400, 31 * 86400, 366 * 86400}

IsNormalized(s, cfg) ==
    /\ 0 <= s.second /\ s.second < cfg.time.secondsPerMinute
    /\ 0 <= s.minute /\ s.minute < cfg.time.minutesPerHour
    /\ 0 <= s.hour /\ s.hour < cfg.time.hoursPerDay
    /\ 0 <= s.month /\ s.month < Len(cfg.months)
    /\ 1 <= s.day /\ s.day <= getDaysInMonth(s.year, s.month, cfg)

\* lexicographic order of (year, month, day, hour, minute, second)
DateLess(a, b) ==
    \/ a.year < b.year
    \/ a.year = b.year /\ a.month < b.month
    \/ a.year = b.year /\ a.month = b.month /\ a.day < b.day
    \/ a.year = b.year /\ a.month = b.month /\ a.day = b.day /\ a.hour < b.hour
    \/ a.year = b.year /\ a.month = b.month /\ a.day = b.day /\ a.hour = b.hour
       /\ a.minute < b.minute
    \/ a.year = b.year /\ a.month = b.month /\ a.day = b.day /\ a.hour = b.hour
       /\ a.minute = b.minute /\ a.second < b.second

InitTime ==
    /\ config \in TimeShapes
    /\ calState \in { Stored(d, 0, FALSE, 0) : d \in ValidDates(config) }
    /\ worldTime = 0
    /\ toGuard = FALSE
    /\ fromGuard = FALSE
    /\ notes = <<>>
    /\ api = IdleOp
    /\ api2 = IdleOp
    /\ missed = FALSE
    /\ hook = IdleOp
    /\ isGM = TRUE
    /\ call = NoCall
    /\ ret = 0

TimeFrame == UNCHANGED <<config, calState, worldTime, toGuard, fromGuard, notes, api, api2, missed, hook, isGM>>

\* toWorldTime(D, S)
ApplyToWorldTime ==
    /\ call.fn = "none"
    /\ call' = [call EXCEPT !.fn = "toWorldTime"]
    /\ ret' = toWorldTime(calState, config)
    /\ TimeFrame

\* fromWorldTime(toWorldTime(D, S), S)
ApplyFromWorldTimeOfResult ==
    /\ call.fn = "toWorldTime"
    /\ call' = [call EXCEPT !.fn = "roundTrip", !.t = ret]
    /\ ret' = fromWorldTime(ret, config)
    /\ TimeFrame

\* fromWorldTime(t, S)
ApplyFromWorldTime ==
    /\ call.fn = "none"
    /\ \E t \in TimeInputs(config) :
         /\ call' = [call EXCEPT !.fn = "fromWorldTime", !.t = t]
         /\ ret' = fromWorldTime(t, config)
    /\ TimeFrame

\* calculateWeekday(y, m, d, S, offset)
ApplyCalculateWeekday ==
    /\ call.fn = "none"
    /\ \E offset \in (-MaxOffset) .. MaxOffset :
         /\ call' = [call EXCEPT !.fn = "calculateWeekday", !.offset = offset]
         /\ ret' = calculateWeekday(calState.year, calState.month, calState.day, config, offset)
    /\ TimeFrame

\* toWorldTime of the date and of a second date
ApplyCompare ==
    /\ call.fn = "none"
    /\ \E other \in ValidDates(config) :
         /\ call' = [call EXCEPT !.fn = "compare", !.other = other]
         /\ ret' = [t1 |-> toWorldTime(calState, config), t2 |-> toWorldTime(other, config)]
    /\ TimeFrame

\* dates with fields out of range: a valid date moved by whole carries, up or
\* down, in its seconds, minutes, hours, days and months
Strays(d, cfg) ==
    { [year |-> d.year,
       month |-> d.month + v[5] * (Len(cfg.months) + 1),
       day |-> d.day + v[4] * (getDaysInMonth(d.year, d.month, cfg) + 1),
       hour |-> d.hour + v[3] * cfg.time.hoursPerDay,
       minute |-> d.minute + v[2] * (2 * cfg.time.minutesPerHour),
       second |-> d.second + v[1] * (cfg.time.secondsPerMinute + 1)] :
         v \in [1 .. 5 -> {-1, 0, 1}] }

\* normalizeDate(D, S)
ApplyNormalizeDate ==
    /\ call.fn = "none"
    /\ \E d \in Strays(DateOf(calState), config) :
         /\ call' = [call EXCEPT !.fn = "normalizeDate", !.other = d]
         /\ ret' = normalizeDate(d, config)
    /\ TimeFrame

\* normalizeDate(normalizeDate(D, S), S)
ApplyNormalizeDateOfResult ==
    /\ call.fn = "normalizeDate"
    /\ call' = [call EXCEPT !.fn = "normalizeTwice"]
    /\ ret' = [once |-> ret, twice |-> normalizeDate(ret, config)]
    /\ TimeFrame

\* the moons getMoonPhase is given: phases that fill the cycle, phases that stop
\* short of it, no phases; the reference new moon in the shape's second year
Moons(cfg) ==
    LET ref == [year |-> cfg.yearConfig.startingYear + 1, month |-> 0, day |-> 1]
    IN  { [cycleLength |-> 4, referenceNewMoon |-> ref,
           phases |-> << [name |-> "new", length |-> 1], [name |-> "waxing", length |-> 1],
                         [name |-> "full", length |-> 1], [name |-> "waning", length |-> 1] >>],
          [cycleLength |-> 4, referenceNewMoon |-> ref,
           phases |-> << [name |-> "new", length |-> 1], [name |-> "full", length |-> 2] >>],
          [cycleLength |-> 4, referenceNewMoon |-> ref, phases |-> <<>>] }

\* getMoonPhase(D, moon, S)
ApplyGetMoonPhase ==
    /\ call.fn = "none"
    /\ \E moon \in Moons(config) :
         /\ call' = [call EXCEPT !.fn = "getMoonPhase"]
         /\ ret' = [moon |-> moon, phase |-> getMoonPhase(calState, moon, config)]
    /\ TimeFrame

\* _buildMonthGrid, calendar-app.js 79-82: the column of a month's first day
startOffset(firstDayWeekday, cfg) ==
    JsRem(firstDayWeekday - cfg.firstWeekday + Len(cfg.weekdays), Len(cfg.weekdays))

\* _getOrderedWeekdays, calendar-app.js 126-133: the weekday heading column i (from 0)
orderedWeekday(cfg, i) == cfg.weekdays[JsRem(cfg.firstWeekday + i, Len(cfg.weekdays)) + 1]

\* what a shape makes of a date: the weekday calculateWeekday returns, the weekday
\* setState and syncFromWorldTime store, and the heading over the day in the grid
WeekdayFacts(state, cfg, offset, v) ==
    LET weekday == calculateWeekday(state.year, state.month, state.day, cfg, offset)
    IN  [weekday |-> weekday,
         set |-> setStateValue(state, cfg, state).weekday,
         sync |-> syncFromValue(state, cfg, v).weekday,
         heading |-> orderedWeekday(cfg, startOffset(weekday, cfg))]

\* the same date under the shape and under the shape with another firstWeekday
ApplyWeekdayRotated ==
    /\ call.fn = "none"
    /\ \E offset \in (-MaxOffset) .. MaxOffset, first \in 0 .. (Len(config.weekdays) - 1),
          v \in {-1, 1} :
         /\ first # config.firstWeekday
         /\ call' = [call EXCEPT !.fn = "weekdayRotated", !.offset = offset, !.t = v]
         /\ ret' = [first |-> first,
                    plain |-> WeekdayFacts(calState, config, offset, v),
                    rotated |-> WeekdayFacts(calState, [config EXCEPT !.firstWeekday = first],
                                             offset, v)]
    /\ TimeFrame

\* the leap rules isLeapYear is given: Gregorian, simple with intervals 1 to
\* MaxInterval, and both with leap years disabled
LeapRules ==
    { [DEFAULT_LEAP_YEAR_CONFIG EXCEPT !.enabled = e, !.rule = "gregorian"] : e \in BOOLEAN }
    \cup { [DEFAULT_LEAP_YEAR_CONFIG EXCEPT !.enabled = e, !.rule = "simple", !.interval = n] :
              e \in BOOLEAN, n \in 1 .. MaxInterval }

\* the years isLeapYear is given: around 0 on both sides, and centuries
LeapYears ==
    ((-MaxInterval - 1) .. (MaxInterval + 1))
    \cup {-2000, -1900, -400, -100, 100, 400, 1600, 1900, 2000, 2023, 2024, 2100}

\* isLeapYear(year, S) for the shape with one of the leap rules
ApplyIsLeapYear ==
    /\ call.fn = "none"
    /\ \E year \in LeapYears, leapYear \in LeapRules :
         /\ call' = [call EXCEPT !.fn = "isLeapYear", !.t = year]
         /\ ret' = [leapYear |-> leapYear,
                    leap |-> isLeapYear(year, [config EXCEPT !.leapYear = leapYear])]
    /\ TimeFrame

NextTime ==
    \/ ApplyToWorldTime
    \/ ApplyFromWorldTimeOfResult
    \/ ApplyFromWorldTime
    \/ ApplyCalculateWeekday
    \/ ApplyCompare
    \/ ApplyNormalizeDate
    \/ ApplyNormalizeDateOfResult
    \/ ApplyGetMoonPhase
    \/ ApplyWeekdayRotated
    \/ ApplyIsLeapYear

SpecTime == InitTime /\ [][NextTime]_vars

(***************************************************************************)
(* Claims about calendar-time.js, checked under SpecTime.                  *)
(***************************************************************************)
\* C1: round trip: fromWorldTime(toWorldTime(D, S), S) = D in all six fields, for
\* every normalized date D, dates before startingYear included.
C1_RoundTrip ==
    call.fn = "roundTrip" => ret = DateOf(calState)

\* C7: for -secondsPerDay <= t < 0, fromWorldTime(t, S) is the last day of the last
\* month of year startingYear - 1, at time of day secondsPerDay + t.
C7_NegativeLinearTime ==
    (call.fn = "fromWorldTime" /\ -getSecondsPerDay(config) <= call.t /\ call.t < 0) =>
        LET y == config.yearConfig.startingYear - 1
            m == Len(config.months) - 1
        IN  /\ ret.year = y
            /\ ret.month = m
            /\ ret.day = getDaysInMonth(y, m, config)
            /\ ret.hour * config.time.minutesPerHour * config.time.secondsPerMinute
               + ret.minute * config.time.secondsPerMinute + ret.second
               = getSecondsPerDay(config) + call.t

\* C8: calculateWeekday(y, m, d, S, offset) is the day count of toWorldTime plus the
\* offset, reduced to [0, weekdays.length) by non-negative modulo, for every valid
\* date, years before startingYear included.
C8_WeekdayUsesDayCount ==
    call.fn = "calculateWeekday" =>
        LET midnight == [DateOf(calState) EXCEPT !.hour = 0, !.minute = 0, !.second = 0]
            dayCount == toWorldTime(midnight, config) \div getSecondsPerDay(config)
        IN  /\ ret = (dayCount + call.offset) % Len(config.weekdays)
            /\ 0 <= ret /\ ret < Len(config.weekdays)

\* C9: monotonicity: D1 < D2 in lexicographic order implies
\* toWorldTime(D1, S) < toWorldTime(D2, S).
C9_Monotonic ==
    (call.fn = "compare" /\ DateLess(DateOf(calState), call.other)) => ret.t1 < ret.t2

\* a pair on either side of the epoch anchor, one of the two years a leap year
C9_Witness ==
    /\ call.fn = "compare"
    /\ DateLess(DateOf(calState), call.other)
    /\ calState.year < config.yearConfig.startingYear
    /\ call.other.year >= config.yearConfig.startingYear
    /\ isLeapYear(calState.year, config) # isLeapYear(call.other.year, config)

\* C10: the epoch anchor (startingYear, month 0, day 1, 00:00:00) has linear time 0.
C10_EpochAnchor ==
    (/\ call.fn = "toWorldTime"
     /\ DateOf(calState) = [year |-> config.yearConfig.startingYear, month |-> 0, day |-> 1,
                            hour |-> 0, minute |-> 0, second |-> 0])
        => ret = 0

\* the anchor of a shape with a negative startingYear that is a leap year
C10_Witness ==
    /\ call.fn = "toWorldTime"
    /\ DateOf(calState) = [year |-> config.yearConfig.startingYear, month |-> 0, day |-> 1,
                           hour |-> 0, minute |-> 0, second |-> 0]
    /\ config.yearConfig.startingYear < 0
    /\ isLeapYear(config.yearConfig.startingYear, config)
    /\ ret = 0

\* C11: normalization is idempotent: normalizeDate(normalizeDate(D, S), S) =
\* normalizeDate(D, S) for every date D with integer fields, in or out of range.
C11_Idempotent ==
    call.fn = "normalizeTwice" => ret.twice = ret.once

\* a date with the day below 1 and the seconds above the minute, normalized twice
C11_Witness ==
    /\ call.fn = "normalizeTwice"
    /\ call.other.day < 1
    /\ call.other.second >= config.time.secondsPerMinute
    /\ call.other.month < 0
    /\ IsNormalized(ret.once, config)
    /\ ret.twice = ret.once

\* C12: for every integer t, negative ones included, fromWorldTime(t, S) is well
\* formed: its time fields are inside their moduli and make up t modulo
\* secondsPerDay (non-negative), its month index is valid and its day is valid
\* for its year and month.
C12_WellFormed ==
    call.fn = "fromWorldTime" =>
        /\ IsNormalized(ret, config)
        /\ ret.hour * config.time.minutesPerHour * config.time.secondsPerMinute
           + ret.minute * config.time.secondsPerMinute + ret.second
           = call.t % getSecondsPerDay(config)

\* a negative linear time that is not a whole number of days, more than a year back
C12_Witness ==
    /\ call.fn = "fromWorldTime"
    /\ call.t < 0
    /\ call.t % getSecondsPerDay(config) # 0
    /\ ret.year < config.yearConfig.startingYear - 1
    /\ IsNormalized(ret, config)

\* the sum of the first n phase lengths
RECURSIVE SumLengths(_, _)
SumLengths(phases, n) == IF n = 0 THEN 0 ELSE SumLengths(phases, n - 1) + phases[n].length

\* C18: getMoonPhase is null for a moon without phases; otherwise, with pos the
\* days from the reference new moon modulo cycleLength (non-negative, also before
\* the reference), it is the phase whose span holds pos, and the LAST phase when
\* pos is at or beyond the sum of all phase lengths.
C18_MoonPhase ==
    call.fn = "getMoonPhase" =>
        LET phases == ret.moon.phases
            pos == daysBetween(calState, ret.moon.referenceNewMoon, config) % ret.moon.cycleLength
        IN  IF Len(phases) = 0 THEN ret.phase = <<>>
            ELSE /\ ret.phase # <<>>
                 /\ \A i \in 1 .. Len(phases) :
                       (SumLengths(phases, i - 1) <= pos /\ pos < SumLengths(phases, i)) =>
                           ret.phase[1].phaseIndex = i - 1
                 /\ pos >= SumLengths(phases, Len(phases)) =>
                       ret.phase[1].phaseIndex = Len(phases) - 1

C20_LeapRule ==
    call.fn = "isLeapYear" =>
        LET year == call.t
            rule == ret.leapYear
        IN  ret.leap = IF ~rule.enabled THEN FALSE
                       ELSE IF rule.rule = "gregorian"
                       THEN year % 400 = 0 \/ (year % 4 = 0 /\ year % 100 # 0)
                       ELSE year % rule.interval = 0

\* a negative century that is not leap under the Gregorian rule
C20_Witness ==
    /\ call.fn = "isLeapYear"
    /\ call.t = -1900
    /\ ret.leapYear.enabled /\ ret.leapYear.rule = "gregorian"
    /\ ret.leap = FALSE

(***************************************************************************)
(* Claims about the data layer, checked under Spec.                        *)
(***************************************************************************)
\* the size in seconds of a fixed unit: a week is weekdays.length days
UnitSize(unit, cfg) ==
    CASE unit = "second" -> 1
      [] unit = "minute" -> cfg.time.secondsPerMinute
      [] unit = "hour" -> cfg.time.minutesPerHour * cfg.time.secondsPerMinute
      [] unit = "day" -> getSecondsPerDay(cfg)
      [] unit = "week" -> Len(cfg.weekdays) * getSecondsPerDay(cfg)

\* the step on which syncFromWorldTime stores the state it computed
InboundStored == hook.pc = "state" /\ hook'.pc = "idle" /\ calState' = hook.pending

\* the step on which advance stores the state it computed
AdvanceStored == api.kind = "advance" /\ api.pc = "state" /\ api'.pc # "state"

\* the step on which the head notification reaches syncFromWorldTime
Delivered == notes # <<>> /\ notes' = Tail(notes)

\* C2: with sync enabled, no guard set and lastSyncedWorldTime = T, the state
\* syncFromWorldTime(T + d) stores has toWorldTime = toWorldTime(state before) + d
\* and lastSyncedWorldTime = T + d, also when the linear time is or becomes negative.
C2_SyncDelta ==
    [][InboundStored =>
         /\ toWorldTime(calState', config)
              = toWorldTime(calState, config) + (hook.v - calState.lastSyncedWorldTime)
         /\ calState'.lastSyncedWorldTime = hook.v]_vars

\* C3: with sync enabled on the GM client, advance(N, 'second') with N # 0 moves the
\* engine's linear time by N and starts the outbound write, the write moves the
\* external clock by N, and the notification of that write, delivered while the
\* outbound guard is set or after the exchange, changes neither the stored state
\* nor the clock and starts no inbound application.
C3_NoFeedback ==
    [][/\ (AdvanceStored /\ api.unit = "second" /\ api.amount # 0
             /\ api.pending.syncEnabled /\ isGM) =>
            /\ toWorldTime(calState', config) = toWorldTime(calState, config) + api.amount
            /\ api'.pc = "time"
            /\ toGuard'
       /\ (api.kind = "advance" /\ api.unit = "second" /\ api.pc = "time" /\ api'.pc = "sync") =>
            /\ worldTime' = worldTime + api.amount
            /\ notes' # <<>>
            /\ notes'[Len(notes')].value = worldTime'
       /\ (Delivered /\ Head(notes).by = "advance" /\ Head(notes).undisturbed) =>
            /\ calState' = calState
            /\ worldTime' = worldTime
            /\ hook' = hook]_vars

\* the notification of an advance by seconds is waiting after the exchange has
\* completed: the guard is cleared and no operation is in flight
C3_Witness ==
    /\ notes # <<>>
    /\ Head(notes).by = "advance" /\ Head(notes).undisturbed
    /\ ~toGuard
    /\ api.pc = "idle"
    /\ calState.syncEnabled
    /\ calState.second # 0

\* C4: whenever no handler is in flight, the stored state is normalized for the
\* active shape: time fields inside their moduli, a valid month index, a valid day.
C4_NormalizedState ==
    (api.pc = "idle" /\ hook.pc = "idle") => IsNormalized(calState, config)

\* C5: with sync enabled, advance(amount, 'month') and advance(amount, 'year') with
\* amount # 0 hand the external clock exactly toWorldTime(stored state after)
\* - toWorldTime(stored state before); no write is a change of 0.
C5_MonthYearDelta ==
    [][(AdvanceStored /\ api.unit \in {"month", "year"} /\ api.amount # 0
          /\ api.pending.syncEnabled /\ isGM) =>
         (IF api'.pc = "time" THEN api'.secondsDelta ELSE 0)
           = toWorldTime(calState', config) - toWorldTime(calState, config)]_vars

\* C6: for a fixed unit the state advance stores is normalized and its linear time
\* is that of the state before plus amount x unit size; advance(1, 'day') from the
\* last day of the last month stores (year + 1, month 0, day 1).
C6_FixedUnitAdvance ==
    [][(AdvanceStored /\ api.unit \in FixedUnits) =>
         /\ IsNormalized(calState', config)
         /\ toWorldTime(calState', config) - toWorldTime(calState, config)
              = api.amount * UnitSize(api.unit, config)
         /\ (api.unit = "day" /\ api.amount = 1
               /\ calState.month = Len(config.months) - 1
               /\ calState.day = getDaysInMonth(calState.year, calState.month, config)) =>
              (calState'.year = calState.year + 1 /\ calState'.month = 0 /\ calState'.day = 1)]_vars

\* advance(1, 'day') read the last day of the last month and is storing the first
\* day of the next year
C6_Witness ==
    /\ api.kind = "advance" /\ api.pc = "state"
    /\ api.unit = "day" /\ api.amount = 1
    /\ calState.month = Len(config.months) - 1
    /\ calState.day = getDaysInMonth(calState.year, calState.month, config)
    /\ IsNormalized(calState, config)
    /\ api.pending.year = calState.year + 1
    /\ api.pending.month = 0 /\ api.pending.day = 1

\* C13: with sync enabled, when setDate or setTime, called as the module API calls
\* them (no options, so updateWorldTime takes its default), stores a changed date,
\* an outbound write of toWorldTime(new state) - external clock is started.
C13_OutboundOnSet ==
    [][(/\ api.kind \in {"setDate", "setTime"} /\ api.pc = "state"
        /\ ~api.updateWorldTime
        /\ api.pending.syncEnabled /\ isGM
        /\ DateOf(api.pending) # DateOf(calState)
        /\ api'.pc # "state") =>
         /\ api'.pc = "time"
         /\ api'.secondsDelta = toWorldTime(api.pending, config) - worldTime]_vars

\* C14: setSyncEnabled(true) leaves the six date fields and the external clock
\* unchanged and stores syncEnabled = true with lastSyncedWorldTime = the clock's
\* value; and a notification of a clock change made while sync was disabled,
\* handed to the hook with the clock's current value, is never applied.
C14_ToggleKeepsClocks ==
    [][/\ (api.kind = "setSyncEnabled" /\ api.pc = "state" /\ api.pending.syncEnabled
             /\ api'.pc = "idle") =>
            /\ DateOf(calState') = DateOf(calState)
            /\ worldTime' = worldTime
            /\ calState'.syncEnabled
            /\ calState'.lastSyncedWorldTime = worldTime'
       /\ (Delivered /\ Head(notes).by = "external" /\ Head(notes).disabled
             /\ Head(notes).value = worldTime) =>
            /\ calState' = calState
            /\ hook' = hook]_vars

\* sync has been switched on after the clock moved while it was off, and the
\* notification of that move is still to be delivered, no guard set
C14_Witness ==
    /\ notes # <<>>
    /\ Head(notes).by = "external" /\ Head(notes).disabled
    /\ Head(notes).value = worldTime
    /\ calState.syncEnabled /\ ~toGuard
    /\ api.pc = "idle" /\ hook.pc = "idle"
    /\ worldTime # 0

\* C15: when the external-clock write of advance fails, the stored date is the
\* date stored before the call: no failed advance leaves the engine date changed
\* and the external clock unchanged.
C15_FailedNotCommitted ==
    [][(api.kind = "advance" /\ api.pc = "time" /\ api'.pc = "idle") =>
         DateOf(calState') = api.before]_vars

\* a shape the engine can compute with: months and weekdays present, month
\* lengths and time-unit sizes positive
ValidShape(cfg) ==
    /\ Len(cfg.months) >= 1
    /\ Len(cfg.weekdays) >= 1
    /\ \A i \in DOMAIN cfg.months : cfg.months[i].days > 0
    /\ cfg.time.hoursPerDay > 0 /\ cfg.time.minutesPerHour > 0
    /\ cfg.time.secondsPerMinute > 0

\* C16: the active shape is always valid (an invalid one is rejected by
\* importConfig and by the configuration save) and no import call hangs.
C16_ValidShapeInstalled ==
    ValidShape(config) /\ api.pc # "hang"

\* C17: an import that fails, at its validation or at any later step, has changed
\* neither the active shape nor the stored state.
C17_ImportAllOrNothing ==
    (api.kind = "importConfig" /\ api.pc = "failed") =>
        /\ config = api.prev.config
        /\ calState = api.prev.state

\* C21: a notification that reaches syncFromWorldTime while the outbound guard is
\* set, or while syncEnabled is false, or with the value of lastSyncedWorldTime,
\* leaves the stored state and the external clock unchanged, starts no settings
\* write (so nothing is persisted and no state-changed event follows) and leaves
\* the shape and the inbound guard alone.
C21_IgnoredChangesNothing ==
    [][(Delivered /\ (\/ toGuard
                      \/ ~calState.syncEnabled
                      \/ calState.lastSyncedWorldTime = Head(notes).value)) =>
         /\ calState' = calState
         /\ worldTime' = worldTime
         /\ config' = config
         /\ hook' = hook
         /\ fromGuard' = fromGuard]_vars

\* the notification of an outbound write is waiting while the guard is still set:
\* sync is enabled and the value differs from lastSyncedWorldTime, so the guard
\* is the only reason to ignore it
C21_Witness ==
    /\ notes # <<>>
    /\ toGuard
    /\ calState.syncEnabled
    /\ calState.lastSyncedWorldTime # Head(notes).value
    /\ hook.pc = "idle"

\* C24: whenever the outbound step of advance or of syncToWorldTime is left, by
\* completing or by a rejected clock write or settings write, the outbound guard
\* is false; whenever the inbound write of syncFromWorldTime is left, by
\* completing or by rejecting, the inbound guard is false; and a notification of
\* an external clock change that reaches the hook with no operation in flight,
\* sync enabled and a value other than lastSyncedWorldTime is applied, not ignored.
C24_GuardsReleased ==
    [][/\ (api.pc \in {"time", "sync"} /\ api'.pc \notin {"time", "sync"}) => ~toGuard'
       /\ (hook.pc = "state" /\ hook'.pc # "state") => ~fromGuard'
       /\ (Delivered /\ Head(notes).by = "external" /\ api.pc = "idle"
             /\ calState.syncEnabled
             /\ Head(notes).value # calState.lastSyncedWorldTime) =>
            (hook'.pc = "state" /\ hook'.v = Head(notes).value)]_vars

\* the settings write after the clock write of an outbound step has failed: the
\* operation has returned, the clock has moved, lastSyncedWorldTime is stale, the
\* notification of the move is still to be delivered, and the guard is clear
C24_Witness ==
    /\ api.pc = "idle" /\ hook.pc = "idle"
    /\ calState.syncEnabled /\ isGM
    /\ notes # <<>>
    /\ Head(notes).by \in {"advance", "syncTo"}
    /\ Head(notes).value = worldTime
    /\ calState.lastSyncedWorldTime # worldTime
    /\ ~toGuard /\ ~fromGuard

\* C25: with sync enabled on the GM client and operations run one at a time, the
\* engine's linear time and the external clock move together: the state an
\* advance stores differs in linear time from the state before by exactly what
\* advance then writes to the clock (nothing written counting as 0), and the state
\* an inbound application stores differs from the state before by exactly the
\* clock's change since lastSyncedWorldTime; so toWorldTime(stored state) minus
\* the clock is the same in every quiescent state.
C25_NoDrift ==
    [][/\ (AdvanceStored /\ api.pending.syncEnabled /\ isGM) =>
            toWorldTime(calState', config) - toWorldTime(calState, config)
              = (IF api'.pc = "time" THEN api'.secondsDelta ELSE 0)
       /\ (api.kind = "advance" /\ api.pc = "time" /\ api'.pc = "sync") =>
            worldTime' - worldTime = api.secondsDelta
       /\ (InboundStored /\ isGM) =>
            toWorldTime(calState', config) - toWorldTime(calState, config)
              = hook.v - calState.lastSyncedWorldTime]_vars

\* C27: whenever no handler is in flight, the stored weekday is
\* calculateWeekday(year, month, day, active shape) of the stored date.
C27_CachedWeekday ==
    (api.pc = "idle" /\ hook.pc = "idle") =>
        calState.weekday
          = calculateWeekday(calState.year, calState.month, calState.day, config, 0)

C29_LoadResetsSync ==
    [][(api.kind \in {"loadPreset", "importConfig"} /\ api.pc = "state" /\ api'.pc = "idle") =>
         (~calState'.syncEnabled /\ calState'.lastSyncedWorldTime = 0)]_vars

\* the step on which another subsystem moves the clock: no engine variable changes
ExternalStep ==
    /\ notes' # <<>>
    /\ notes'[Len(notes')].by = "external"
    /\ Len(notes') = Len(notes) + 1
    /\ api' = api /\ hook' = hook /\ calState' = calState

\* C30: the external clock changes only by another subsystem or in the outbound
\* step of an engine operation, on the GM client, under the outbound guard, with
\* syncEnabled true in the state the operation stored and by the delta the
\* operation computed; in particular no step of syncFromWorldTime and no step of
\* setSyncEnabled changes it, and no engine step changes it while the stored
\* syncEnabled is false.
C30_ClockWriteFrame ==
    [][/\ (worldTime' # worldTime /\ ~ExternalStep) =>
            /\ api.pc = "time" /\ api'.pc = "sync"
            /\ toGuard /\ isGM
            /\ api.pending.syncEnabled /\ calState.syncEnabled
            /\ worldTime' = worldTime + api.secondsDelta
            /\ hook' = hook
       /\ (hook' # hook \/ api.kind = "setSyncEnabled") => worldTime' = worldTime
       /\ (~calState.syncEnabled /\ ~ExternalStep) => worldTime' = worldTime]_vars

\* the outbound step of an advance has just written the external clock
C30_Witness ==
    /\ api.kind = "advance" /\ api.pc = "sync"
    /\ api.secondsDelta # 0
    /\ api.pending.syncEnabled /\ isGM /\ toGuard
    /\ worldTime = api.pending.lastSyncedWorldTime
    /\ worldTime # calState.lastSyncedWorldTime

(***************************************************************************)
(* Claims about interleaved handlers, checked under SpecAsync.             *)
(***************************************************************************)
\* C22: while the inbound guard is set no outbound write is started (the outbound
\* guard does not go from clear to set), and the two guards are never set together.
C22_IdleOnly ==
    [][/\ fromGuard => ~(~toGuard /\ toGuard')
       /\ ~(toGuard' /\ fromGuard')]_vars

\* two advance calls applied one after the other to the date the first one read:
\* the date stored in the end and the sum of the two deltas
TwoInARow(first, second) ==
    LET s0 == Stored(first.before, 0, FALSE, 0)
        a1 == advanceUnit(s0, config, first.amount, first.unit)
        s1 == setStateValue(a1.state, config, s0)
        a2 == advanceUnit(s1, config, second.amount, second.unit)
        s2 == setStateValue(a2.state, config, s1)
    IN  [date |-> DateOf(s2), delta |-> a1.secondsDelta + a2.secondsDelta]

\* C23: when two advance calls, the second made before the first has returned,
\* have both returned and every notification is handled, the stored date is the
\* date of applying both amounts one after the other, and with sync enabled on
\* the GM client the external clock has moved by the sum of both deltas.
C23_AdvanceSerialized ==
    (api2.pc = "done" /\ api.pc = "idle" /\ notes = <<>> /\ hook.pc = "idle") =>
        /\ DateOf(calState) = TwoInARow(api2.first, api2).date
        /\ (calState.syncEnabled /\ isGM) =>
               worldTime = api2.first.clock + TwoInARow(api2.first, api2).delta

\* C26: when the clock was moved by others, by d in all, while an advance was in
\* flight, then once the advance has returned and every notification is handled
\* the engine's linear time is that of the date advance read plus advance's own
\* delta plus d; and, no second advance being in flight, the final state write of
\* advance changes no date field (it does not overwrite what an inbound
\* application stored meanwhile).
C26_ExternalNotLost ==
    [][/\ (api'.pc = "done" /\ notes' = <<>> /\ hook'.pc = "idle") =>
            toWorldTime(calState', config')
              = toWorldTime(Stored(api'.before, 0, FALSE, 0), config')
                  + api'.secondsDelta + api'.during
       /\ (api.kind = "advance" /\ api.pc = "sync" /\ api'.pc # "sync" /\ api2.pc = "idle") =>
            DateOf(calState') = DateOf(calState)]_vars

====
